---- MODULE Spec2Model ----
(***************************************************************************)
(* A model of container-image-proxy.                                       *)
(*                                                                         *)
(* Part I  : the descriptor-passing RPC variant (src/cmd/main.go):         *)
(*           proxyHandler (ensureImage, GetManifest, GetBlob, FinishPipe), *)
(*           replyBuf.send, the session loop of run, one copy goroutine    *)
(*           per registered pipe, and the peer at the other end of the    *)
(*           socket and of the pipes.                                      *)
(* Part II : the HTTP-over-socket variant (src/unnamed/part_001, second    *)
(*           program): ServeHTTP, implManifest, implBlob,                  *)
(*           SockResponseWriter and the loop of run.                       *)
(***************************************************************************)
EXTENDS Integers, Sequences, FiniteSets, TLC

(* ------------------------------ bounds -------------------------------- *)
\* chunks a pipe holds before a write blocks
PipeCap == 1
\* pipes alive at the same time (kernel objects)
MaxPipes == 2
\* descriptor numbers the process may use for pipe ends (RLIMIT_NOFILE)
MaxFd == 4
\* image sources opened over one run
MaxOpens == 2

(* ------------------------------ values -------------------------------- *)
Bytes == {0, 1}

Min(S) == CHOOSE x \in S : \A y \in S : x <= y

\* One step of the running hash: the verifier is fed one chunk at a time.
HashStep(h, b) == 3 * h + b + 1

\* The digest of a byte sequence (collision free on the sequences used here).
RECURSIVE Hash(_)
Hash(s) == IF s = <<>> THEN 0 ELSE HashStep(Hash(SubSeq(s, 1, Len(s) - 1)), s[Len(s)])

\* A digest string "<algo>:<hex>".
NoStr == [algo |-> "", hex |-> 0]
Sha(h) == [algo |-> "sha256", hex |-> h]

\* JSON values: strings (digest strings), numbers, null.
Str(d) == [t |-> "str", s |-> d, n |-> 0]
Num(k) == [t |-> "num", s |-> NoStr, n |-> k]
Null == [t |-> "null", s |-> NoStr, n |-> 0]

\* Go errors: nil, or a message (with the digest it quotes, if any).
Nil == [msg |-> "nil", d |-> NoStr]
Err(m) == [msg |-> m, d |-> NoStr]
ErrCorrupted(d) == [msg |-> "corrupted blob, expecting", d |-> d]

Fds == 1..MaxFd
Slots == 1..MaxPipes

Methods == {"GetManifest", "GetBlob", "FinishPipe", "Shutdown", "Bogus"}

(* ------------------------------ backend ------------------------------- *)
\* The blobs of the image, and the digest strings a caller may ask for.
BlobStore == {<<0>>, <<1, 0>>}
AbsentDigest == Sha(Hash(<<1>>))
BadDigest == [algo |-> "md5", hex |-> 0]
DigestStrs == {Sha(Hash(b)) : b \in BlobStore} \cup {AbsentDigest, BadDigest}

\* Raw manifests the backend may hold.  First byte: media type
\* (0 OCI, 1 Docker schema 2, 2 a type with no OCI conversion); a later byte 2
\* is formatting that parsing and re-serialising does not keep.
RawManifests == {<<0, 2, 1>>, <<1, 1>>, <<2, 1>>}

\* manifest.Digest: the digest of the bytes as given.
ManifestDigest(raw) == Sha(Hash(raw))

\* manifest.OCI1FromManifest fails on a manifest it cannot convert.
OCIConvertible(raw) == raw # <<>> /\ raw[1] \in {0, 1}

\* OCI1FromManifest followed by Serialize.
OCISerialized(raw) ==
    <<0>> \o SelectSeq(SubSeq(raw, 2, Len(raw)), LAMBDA b : b # 2)

\* digest.Parse: the algorithm must be a registered one.
DigestParseOk(d) == d.algo \in {"sha256", "sha512"}

(* ------------------------------ state --------------------------------- *)
VARIABLES
    imageref,     \* h.imageref: "ok" parses, "bad" does not
    rawManifest,  \* what the backend returns from Manifest()
    img,          \* h.img # nil
    opens,        \* image sources opened so far (NewImageSource successes)
    pipes,        \* slot -> pipe (kernel object, with the activePipe using it)
    activePipes,  \* h.activePipes: pipeid -> slot of its activePipe (0: no entry)
    lock,         \* h.lock is held
    pc,           \* position of the session goroutine
    req,          \* the request being handled (after json.Unmarshal)
    finishing,    \* pipeid FinishPipe waits on (0: none)
    ret,          \* (replyBuf, error) returned by the handler
    out,          \* replies sent for the current request
    sockOk,       \* the peer's end of the socket is open
    hreq,         \* HTTP variant: the request being served
    wire,         \* HTTP variant: what was written to the channel for it
    contacted     \* HTTP variant: serving it called the image backend

vars == <<imageref, rawManifest, img, opens, pipes, activePipes, lock, pc,
          req, finishing, ret, out, sockOk, hreq, wire, contacted>>

\* The state of the RPC program only, and of the HTTP program only.
rpcVars == <<opens, pipes, activePipes, lock, req, finishing, ret, out>>
httpVars == <<hreq, wire, contacted>>

\* A pipe slot.  rfd/wfd: the process's descriptors for the two ends (0:
\* closed); peer: the read end as held by the peer; use: what holds it in
\* the program; task: the copy goroutine.
NoPipe ==
    [st |-> "free", rfd |-> 0, wfd |-> 0, peer |-> "none", buf |-> <<>>,
     use |-> "none", digest |-> NoStr, src |-> <<>>, hashed |-> 0,
     written |-> <<>>, task |-> "none", err |-> Nil]

NoRet == [value |-> Null, fd |-> 0, pipeid |-> 0, err |-> Nil]
NoReq == [Method |-> "", Args |-> <<>>, derr |-> FALSE]
NoHReq == [method |-> "", path |-> "", d |-> NoStr, bodyOk |-> TRUE]

OpenFds == ({pipes[i].rfd : i \in Slots} \cup {pipes[i].wfd : i \in Slots}) \ {0}
FreeFds == Fds \ OpenFds
FreeSlots == {i \in Slots : pipes[i].st = "free"}

\* A pipe nothing refers to any more is gone.
Dead(p) ==
    /\ p.st = "live" /\ p.rfd = 0 /\ p.wfd = 0
    /\ p.peer # "open" /\ p.task # "running"
Reap(ps, ap) ==
    [i \in Slots |->
        IF Dead(ps[i]) /\ i \notin {ap[k] : k \in Fds} THEN NoPipe ELSE ps[i]]

ReaderOpen(p) == p.rfd # 0 \/ p.peer = "open"

\* The process is gone: its descriptors are closed and its goroutines and
\* heap no longer exist.
Exited ==
    /\ pipes' = [i \in Slots |-> NoPipe]
    /\ activePipes' = [k \in Fds |-> 0]
    /\ lock' = FALSE
    /\ finishing' = 0

Init ==
    /\ imageref \in {"ok", "bad"}
    /\ rawManifest \in RawManifests
    /\ img = FALSE
    /\ opens = 0
    /\ pipes = [i \in Slots |-> NoPipe]
    /\ activePipes = [k \in Fds |-> 0]
    /\ lock = FALSE
    /\ pc = "read"
    /\ req = NoReq
    /\ finishing = 0
    /\ ret = NoRet
    /\ out = <<>>
    /\ sockOk = TRUE
    /\ hreq = NoHReq
    /\ wire = <<>>
    /\ contacted = FALSE

(* ------------------------- proxyHandler (RPC) ------------------------- *)
\* What a handler call leaves behind: its return value and the handler state.
Outcome(r, i, o, ps, ap) ==
    [ret |-> r, img |-> i, opens |-> o, pipes |-> ps, activePipes |-> ap]
Fail(e) == [NoRet EXCEPT !.err = e]

\* ensureImage: the possible results [err, img, opens].
ensureImage ==
    IF img THEN {[err |-> Nil, img |-> TRUE, opens |-> opens]}
    ELSE IF imageref = "bad"
    THEN {[err |-> Err("invalid image name"), img |-> FALSE, opens |-> opens]}
    ELSE {[err |-> Err("NewImageSource failed"), img |-> FALSE, opens |-> opens]}
         \cup (IF opens < MaxOpens
               THEN {[err |-> Err("failed to load image"), img |-> FALSE,
                      opens |-> opens + 1],
                     [err |-> Nil, img |-> TRUE, opens |-> opens + 1]}
               ELSE {})

\* os.Pipe: the two lowest free descriptor numbers, read end first.
OsPipeOk == Cardinality(FreeFds) >= 2 /\ FreeSlots # {}
PipeR == Min(FreeFds)
PipeW == Min(FreeFds \ {PipeR})
PipeSlot == Min(FreeSlots)
NewPipe == [NoPipe EXCEPT !.st = "live", !.rfd = PipeR, !.wfd = PipeW]

\* Faulty variant: the handler copies the stream itself before it returns.
StartCopy_Inline(p, src) ==
    [p EXCEPT !.src = <<>>, !.written = src, !.buf = src, !.task = "done"]

\* f.wg.Add(1); go func() { ... }(): the goroutine is started with the whole
\* stream still to copy, and the handler goes on.
StartCopy(p, src) == [p EXCEPT !.src = src, !.task = "running"]

\* Faulty variant: the registry keyed by something else than the descriptor
\* number of the write end.
Register_BySlot(ap, k, i) == [ap EXCEPT ![i] = i]

\* h.activePipes[uint32(pipew.Fd())] = &f
Register(ap, k, i) == [ap EXCEPT ![k] = i]

\* Faulty variant: the digest taken after the conversion.
ReportedDigest_OfConverted(raw) == ManifestDigest(OCISerialized(raw))

\* The value GetManifest reports: the digest of the manifest as fetched.
ReportedDigest(raw) == ManifestDigest(raw)

GetManifest(args) ==
    IF Len(args) # 0
    THEN {Outcome(Fail(Err("invalid request, expecting zero arguments")),
                  img, opens, pipes, activePipes)}
    ELSE UNION {
        IF e.err # Nil
        THEN {Outcome(Fail(e.err), e.img, e.opens, pipes, activePipes)}
        ELSE {Outcome(Fail(Err("manifest fetch failed")), e.img, e.opens,
                      pipes, activePipes)}
             \cup
             (IF ~OCIConvertible(rawManifest)
              THEN {Outcome(Fail(Err("unsupported manifest type")), e.img,
                            e.opens, pipes, activePipes)}
              ELSE IF ~OsPipeOk
              THEN {Outcome(Fail(Err("pipe: too many open files")), e.img,
                            e.opens, pipes, activePipes)}
              ELSE {Outcome(
                       [value |-> Str(ReportedDigest(rawManifest)),
                        fd |-> PipeR, pipeid |-> PipeW, err |-> Nil],
                       e.img, e.opens,
                       [pipes EXCEPT ![PipeSlot] =
                           StartCopy([NewPipe EXCEPT !.use = "manifest"],
                                     OCISerialized(rawManifest))],
                       Register(activePipes, PipeW, PipeSlot))})
        : e \in ensureImage}

\* What a blob's reader may deliver: the blob, the blob with one byte
\* changed in transit, or the blob cut short.
Streams(b) ==
    {b}
    \cup {[b EXCEPT ![k] = 1 - @] : k \in 1..Len(b)}
    \cup {SubSeq(b, 1, Len(b) - 1)}

\* (*h.imgsrc).GetBlob: the possible results for a parsed digest; the size
\* may be unknown (-1).
BackendGetBlob(d) ==
    IF \E b \in BlobStore : Sha(Hash(b)) = d
    THEN {[err |-> Err("blob fetch failed"), stream |-> <<>>, size |-> 0]}
         \cup {[err |-> Nil, stream |-> s, size |-> n] :
                  s \in UNION {Streams(b) : b \in {c \in BlobStore : Sha(Hash(c)) = d}},
                  n \in {-1} \cup {Len(b) : b \in {c \in BlobStore : Sha(Hash(c)) = d}}}
    ELSE {[err |-> Err("blob unknown"), stream |-> <<>>, size |-> 0]}

GetBlob(args) ==
    IF Len(args) # 1
    THEN {Outcome(Fail(Err("invalid request, expecting one blobid")),
                  img, opens, pipes, activePipes)}
    ELSE IF args[1].t # "str"
    THEN {Outcome(Fail(Err("expecting string blobid")),
                  img, opens, pipes, activePipes)}
    ELSE UNION {
        IF e.err # Nil
        THEN {Outcome(Fail(e.err), e.img, e.opens, pipes, activePipes)}
        ELSE IF ~OsPipeOk
        THEN {Outcome(Fail(Err("pipe: too many open files")), e.img, e.opens,
                      pipes, activePipes)}
        ELSE LET leaked == [pipes EXCEPT ![PipeSlot] =
                               [NewPipe EXCEPT !.use = "unreferenced"]]
                 d == args[1].s
             IN  IF ~DigestParseOk(d)
                 THEN {Outcome(Fail(Err("invalid digest")), e.img, e.opens,
                               leaked, activePipes)}
                 ELSE {IF b.err # Nil
                       THEN Outcome(Fail(b.err), e.img, e.opens, leaked,
                                    activePipes)
                       ELSE Outcome(
                               [value |-> Num(b.size), fd |-> PipeR,
                                pipeid |-> PipeW, err |-> Nil],
                               e.img, e.opens,
                               [pipes EXCEPT ![PipeSlot] =
                                   StartCopy([NewPipe EXCEPT !.use = "blob",
                                                             !.digest = d],
                                             b.stream)],
                               Register(activePipes, PipeW, PipeSlot))
                       : b \in BackendGetBlob(d)}
        : e \in ensureImage}

(* ----------------------------- replyBuf.send -------------------------- *)
\* The JSON reply and what went with it: att is the pipe slot whose read end
\* was passed out of band (0: no descriptor).
Reply(r, att) ==
    [success |-> r.err = Nil, value |-> r.value, pipeid |-> r.pipeid,
     error |-> IF r.err = Nil THEN Err("") ELSE r.err, att |-> att]

SlotOfRfd(ps, fd) == CHOOSE i \in Slots : ps[i].rfd = fd

\* send, what the peer receives: WriteMsgUnix carries the reply with the
\* descriptor as ancillary data; it fails when the peer is gone (up false).
Sent(r, o, ps, up) ==
    IF ~up THEN o
    ELSE Append(o, Reply(r, IF r.fd = 0 THEN 0 ELSE SlotOfRfd(ps, r.fd)))

\* send, the descriptors: the deferred buf.fd.Close() closes the local read
\* end whether or not the write succeeded.
PipesAfterSend(r, ps, ap, up) ==
    IF r.fd = 0 THEN ps
    ELSE LET i == SlotOfRfd(ps, r.fd)
         IN  Reap([ps EXCEPT ![i].rfd = 0,
                             ![i].peer = IF up THEN "open" ELSE @],
                  ap)

\* rb, err := handler.M(req.Args); rb.send(conn, err), for an outcome o of
\* the handler; pre holds the replies already sent for this request.
ReturnAndSend(o, pre, up) ==
    /\ ret' = o.ret
    /\ img' = o.img
    /\ opens' = o.opens
    /\ activePipes' = o.activePipes
    /\ out' = Sent(o.ret, pre, o.pipes, up)
    /\ pipes' = PipesAfterSend(o.ret, o.pipes, o.activePipes, up)

(* --------------------- one request, handler and reply ------------------ *)
ServeGetManifest(q, pre, up) ==
    /\ ~lock
    /\ \E o \in GetManifest(q.Args) : ReturnAndSend(o, pre, up)
    /\ pc' = "replied"
    /\ UNCHANGED <<imageref, rawManifest, lock, finishing>>

ServeGetBlob(q, pre, up) ==
    /\ ~lock
    /\ \E o \in GetBlob(q.Args) : ReturnAndSend(o, pre, up)
    /\ pc' = "replied"
    /\ UNCHANGED <<imageref, rawManifest, lock, finishing>>

\* FinishPipe up to f.wg.Wait(): args[0] of an empty list panics; an entry
\* found, the goroutine waits with the lock held.
ServeFinishPipe(q, pre, up) ==
    /\ ~lock
    /\ IF Len(q.Args) = 0
       THEN /\ pc' = "panic"
            /\ out' = pre
            /\ ret' = NoRet
            /\ Exited
       ELSE IF q.Args[1].t # "num"
       THEN /\ ret' = Fail(Err("finishpipe: expecting blobid"))
            /\ out' = Sent(ret', pre, pipes, up)
            /\ pc' = "replied"
            /\ UNCHANGED <<finishing, lock, pipes, activePipes>>
       ELSE IF q.Args[1].n \notin Fds \/ activePipes[q.Args[1].n] = 0
       THEN /\ ret' = Fail(Err("finishpipe: no active pipe"))
            /\ out' = Sent(ret', pre, pipes, up)
            /\ pc' = "replied"
            /\ UNCHANGED <<finishing, lock, pipes, activePipes>>
       ELSE /\ finishing' = q.Args[1].n
            /\ lock' = TRUE
            /\ pc' = "wait"
            /\ out' = pre
            /\ ret' = NoRet
            /\ UNCHANGED <<pipes, activePipes>>
    /\ UNCHANGED <<imageref, rawManifest, img, opens>>

\* Faulty variant: FinishPipe without the f.wg.Wait().
WaitDone_NoWait(p) == TRUE

\* f.wg.Wait() returns only once the copy goroutine has called f.wg.Done().
WaitDone(p) == p.task = "done"

\* Faulty variant: FinishPipe without the delete.
Unregister_Keep(ap, k) == ap

\* delete(h.activePipes, pipeid)
Unregister(ap, k) == [ap EXCEPT ![k] = 0]

\* What FinishPipe returns for the activePipe it waited on.
FinishResult(p) == p.err

\* FinishPipe from f.wg.Wait() on: close the write end, take f.err, delete
\* the entry, return; then rb.send.
FinishPipeReturn ==
    /\ UNCHANGED httpVars
    /\ pc = "wait"
    /\ LET i == activePipes[finishing]
           ap == Unregister(activePipes, finishing)
       IN  /\ WaitDone(pipes[i])
           /\ ret' = Fail(FinishResult(pipes[i]))
           /\ activePipes' = ap
           /\ pipes' = Reap([pipes EXCEPT ![i].wfd = 0], ap)
           /\ out' = Sent(ret', out, pipes, sockOk)
    /\ finishing' = 0
    /\ lock' = FALSE
    /\ pc' = "replied"
    /\ UNCHANGED <<imageref, rawManifest, img, opens, req, sockOk>>

(* ------------------------- the copy goroutines ------------------------ *)
\* Faulty variant: goroutines that run only while no handler holds h.lock.
Running_LockFree == pc = "read"

\* The process is alive (run has not returned, nothing has panicked).  The
\* steps of the goroutines and of the peer are taken at the two places where
\* the session goroutine blocks, the read of the socket and f.wg.Wait().
Running == pc \in {"read", "wait"}

\* Faulty variant: the goroutine without the verifier.Verified() check.
Verdict_Unchecked(p) == Nil

\* After io.Copy returned nil: the error the goroutine records.
Verdict(p) ==
    IF p.use = "blob" /\ Sha(p.hashed) # p.digest
    THEN ErrCorrupted(p.digest)
    ELSE Nil

\* The TeeReader feeds the verifier every chunk read from the blob.
Tee(p) == IF p.use = "blob" THEN HashStep(p.hashed, Head(p.src)) ELSE p.hashed

\* One step of the goroutine of a pipe: io.Copy, chunk by chunk (a read
\* that may fail, a write that blocks on a full pipe and fails without a
\* reader), then the verdict and wg.Done().
CopyStepOf(p) ==
    IF p.src = <<>>
    THEN {[p EXCEPT !.task = "done", !.err = Verdict(p)]}
    ELSE (IF p.use = "blob"
          THEN {[p EXCEPT !.task = "done", !.err = Err("read error"),
                          !.src = <<>>]}
          ELSE {})
         \cup
         (IF ~ReaderOpen(p)
          THEN {[p EXCEPT !.task = "done", !.err = Err("write: broken pipe"),
                          !.hashed = Tee(p), !.src = <<>>]}
          ELSE IF Len(p.buf) < PipeCap
          THEN {[p EXCEPT !.src = Tail(@), !.hashed = Tee(p),
                          !.buf = Append(@, Head(p.src)),
                          !.written = Append(@, Head(p.src))]}
          ELSE {})

\* The goroutine of pipe i takes a step.
CopyStepAt(i) ==
    /\ UNCHANGED httpVars
    /\ Running
    /\ pipes[i].task = "running"
    /\ \E q \in CopyStepOf(pipes[i]) :
          pipes' = Reap([pipes EXCEPT ![i] = q], activePipes)
    /\ UNCHANGED <<imageref, rawManifest, img, opens, activePipes, lock, pc,
                   req, finishing, ret, out, sockOk>>

CopyStep == \E i \in Slots : CopyStepAt(i)

(* ------------------------------ the peer ------------------------------ *)
PeerRead ==
    /\ UNCHANGED httpVars
    /\ Running
    /\ \E i \in Slots :
          /\ pipes[i].peer = "open" /\ pipes[i].buf # <<>>
          /\ pipes' = [pipes EXCEPT ![i].buf = Tail(@)]
    /\ UNCHANGED <<imageref, rawManifest, img, opens, activePipes, lock, pc,
                   req, finishing, ret, out, sockOk>>

PeerClose ==
    /\ UNCHANGED httpVars
    /\ Running
    /\ \E i \in Slots :
          /\ pipes[i].peer = "open"
          /\ pipes' = Reap([pipes EXCEPT ![i].peer = "closed", ![i].buf = <<>>],
                           activePipes)
    /\ UNCHANGED <<imageref, rawManifest, img, opens, activePipes, lock, pc,
                   req, finishing, ret, out, sockOk>>

PeerHangup ==
    /\ UNCHANGED httpVars
    /\ Running /\ sockOk
    /\ sockOk' = FALSE
    /\ UNCHANGED <<imageref, rawManifest, img, opens, pipes, activePipes,
                   lock, pc, req, finishing, ret, out>>

\* The runtime finalizer of an *os.File nothing refers to closes it.
Finalize ==
    /\ UNCHANGED httpVars
    /\ Running
    /\ \E i \in Slots :
          /\ pipes[i].use = "unreferenced"
          /\ pipes' = Reap([pipes EXCEPT ![i].rfd = 0, ![i].wfd = 0],
                           activePipes)
    /\ UNCHANGED <<imageref, rawManifest, img, opens, activePipes, lock, pc,
                   req, finishing, ret, out, sockOk>>

(* -------------------------- the session loop -------------------------- *)
\* The requests a peer may send, per method: the argument lists that reach
\* each branch of the handlers.
SomeDigest == CHOOSE d \in DigestStrs : DigestParseOk(d)
Requests ==
    ({"GetManifest"} \X {<<>>, <<Num(1)>>})
    \cup ({"GetBlob"} \X ({<<>>, <<Num(1)>>, <<Str(SomeDigest), Str(SomeDigest)>>}
                          \cup {<<Str(d)>> : d \in DigestStrs}))
    \cup ({"FinishPipe"} \X ({<<>>, <<Str(SomeDigest)>>, <<Num(1), Num(1)>>}
                             \cup {<<Num(k)>> : k \in Fds}))
    \cup ({"Shutdown", "Bogus"} \X {<<>>})

\* The datagrams a peer may send: not JSON at all, or a JSON object whose
\* "method" and "args" members may have the wrong type.
RawMsgs ==
    {[syntaxOk |-> FALSE, methodIsStr |-> TRUE, method |-> "", argsIsArr |-> TRUE,
      args |-> <<>>]}
    \cup {[syntaxOk |-> TRUE, methodIsStr |-> TRUE, method |-> r[1],
           argsIsArr |-> TRUE, args |-> r[2]] : r \in Requests}
    \cup {[syntaxOk |-> TRUE, methodIsStr |-> TRUE, method |-> r[1],
           argsIsArr |-> FALSE, args |-> <<>>] : r \in Requests}
    \cup {[syntaxOk |-> TRUE, methodIsStr |-> FALSE, method |-> "",
           argsIsArr |-> TRUE, args |-> <<>>]}

\* json.Unmarshal(readbuf, &req): a syntax error leaves req untouched; a
\* member of the wrong type is skipped, the rest is decoded, and the first
\* such error is returned.
Unmarshal(m) ==
    [Method |-> IF m.syntaxOk /\ m.methodIsStr THEN m.method ELSE "",
     Args |-> IF m.syntaxOk /\ m.argsIsArr THEN m.args ELSE <<>>,
     derr |-> ~m.syntaxOk \/ ~m.methodIsStr \/ ~m.argsIsArr]

\* if err := json.Unmarshal(...); err != nil { rb.send(conn, "invalid
\* request") }: the replies sent before the switch on req.Method.
AfterDecode(q, up) ==
    IF q.derr THEN Sent(Fail(Err("invalid request")), <<>>, pipes, up) ELSE <<>>

\* The methods the switch of run has a case for.
Routed == {"GetManifest", "FinishPipe", "Shutdown"}

\* case "Shutdown": break out
ServeShutdown(q, pre, up) ==
    /\ pc' = "done"
    /\ out' = pre
    /\ ret' = NoRet
    /\ Exited
    /\ UNCHANGED <<imageref, rawManifest, img, opens>>

\* default: rb.send(conn, fmt.Errorf("unknown method: %s", req.Method))
ServeDefault(q, pre, up) ==
    /\ out' = Sent(Fail(Err("unknown method")), pre, pipes, up)
    /\ ret' = NoRet
    /\ pc' = "replied"
    /\ UNCHANGED <<imageref, rawManifest, img, opens, pipes, activePipes,
                   lock, finishing>>

\* The body of branch h, for request q after the replies pre.
Serve(h, q, pre, up) ==
    IF h = "GetManifest" THEN ServeGetManifest(q, pre, up)
    ELSE IF h = "GetBlob" THEN ServeGetBlob(q, pre, up)
    ELSE IF h = "FinishPipe" THEN ServeFinishPipe(q, pre, up)
    ELSE IF h = "Shutdown" THEN ServeShutdown(q, pre, up)
    ELSE ServeDefault(q, pre, up)

\* One turn of the loop of run for a datagram read from the socket, taking
\* branch h of the switch for the methods it stands for; the peer may be
\* gone (up false) by the time the replies are written.
Turn(h, methods) ==
    /\ pc = "read" /\ sockOk
    /\ \E m \in RawMsgs, up \in BOOLEAN :
          /\ Unmarshal(m).Method \in methods
          /\ req' = Unmarshal(m)
          /\ sockOk' = up
          /\ Serve(h, Unmarshal(m), AfterDecode(Unmarshal(m), up), up)
    /\ UNCHANGED httpVars

\* case "GetManifest"
RunGetManifest == Turn("GetManifest", {"GetManifest"} \cap Routed)

\* case "FinishPipe"
RunFinishPipe == Turn("FinishPipe", {"FinishPipe"} \cap Routed)

RunShutdown == Turn("Shutdown", {"Shutdown"} \cap Routed)

RunDefault == Turn("default", (Methods \cup {""}) \ Routed)

\* The end of the loop body: back to conn.ReadFrom.
LoopBack ==
    /\ UNCHANGED httpVars
    /\ pc = "replied"
    /\ pc' = "read"
    /\ req' = NoReq
    /\ ret' = NoRet
    /\ out' = <<>>
    /\ UNCHANGED <<imageref, rawManifest, img, opens, pipes, activePipes,
                   lock, finishing, sockOk>>

\* conn.ReadFrom fails: io.EOF ends the loop, any other error is returned.
RunRecvEnd ==
    /\ UNCHANGED httpVars
    /\ pc = "read" /\ ~sockOk
    /\ pc' \in {"done", "error"}
    /\ Exited
    /\ UNCHANGED <<imageref, rawManifest, img, opens, req, ret, out, sockOk>>

NextRPC ==
    \/ RunGetManifest \/ RunFinishPipe \/ RunShutdown \/ RunDefault
    \/ RunRecvEnd \/ FinishPipeReturn \/ LoopBack
    \/ CopyStep \/ PeerRead \/ PeerClose \/ PeerHangup

SpecRPC == Init /\ [][NextRPC]_vars

(* ------------------- the handler methods called directly ------------------ *)
\* A caller of the three exported methods of proxyHandler: it calls one with
\* an argument list, sends what the method returned with replyBuf.send, and
\* calls again.
Call(method) ==
    /\ pc = "read"
    /\ \E r \in Requests :
          /\ r[1] = method
          /\ req' = [Method |-> r[1], Args |-> r[2], derr |-> FALSE]
          /\ Serve(method, req', <<>>, TRUE)
    /\ UNCHANGED <<sockOk, hreq, wire, contacted>>

CallGetManifest == Call("GetManifest")
CallGetBlob == Call("GetBlob")
CallFinishPipe == Call("FinishPipe")

NextHandler ==
    \/ CallGetManifest \/ CallGetBlob \/ CallFinishPipe \/ FinishPipeReturn
    \/ LoopBack
    \/ CopyStep \/ PeerRead \/ PeerClose \/ Finalize

SpecHandler == Init /\ [][NextHandler]_vars

(***************************************************************************)
(* Part II: the HTTP-over-socket program (src/unnamed/part_001, from line   *)
(* 240).  The image is opened before the loop; each request is served       *)
(* inline, body included, and the output is flushed before the next read.   *)
(***************************************************************************)
\* w.Header(): Content-Length (if set, with its value), Content-Type,
\* Manifest-Digest.
NoHeaders ==
    [clen |-> [has |-> FALSE, v |-> 0], ctype |-> FALSE, mdigest |-> NoStr]
WithLength(h, n) == [h EXCEPT !.clen = [has |-> TRUE, v |-> n]]

\* What reaches the channel: a status line with the header block, a body
\* chunk, or an error text.
StatusLine(code, h) == [k |-> "status", code |-> code, h |-> h, b |-> 0, e |-> Nil]
BodyChunk(b) == [k |-> "body", code |-> 0, h |-> NoHeaders, b |-> b, e |-> Nil]
ErrorText(e) == [k |-> "text", code |-> 0, h |-> NoHeaders, b |-> 0, e |-> e]

\* SockResponseWriter.WriteHeader: status line, the headers as they are
\* now, a blank line; nothing remembers that it was called.
WriteHeader(code, h) == <<StatusLine(code, h)>>

\* SockResponseWriter.Write of a byte sequence, a chunk at a time.
WriteBody(bs) == [i \in 1..Len(bs) |-> BodyChunk(bs[i])]

\* What a handler leaves: its error, the headers, what it wrote, and whether
\* it called the image backend (h.img.Manifest, h.imgsrc.GetBlob).
Impl(e, h, w) == [err |-> e, h |-> h, w |-> w, backend |-> TRUE]
Early(e) == [err |-> e, h |-> NoHeaders, w |-> <<>>, backend |-> FALSE]

\* The Manifest-Digest header implManifest sets.
HeaderDigest(raw) == ManifestDigest(raw)

implManifest(r) ==
    IF ~r.bodyOk THEN {Early(Err("request body"))}
    ELSE {Impl(Err("manifest fetch failed"), NoHeaders, <<>>)}
         \cup
         LET h1 == [NoHeaders EXCEPT !.mdigest = HeaderDigest(rawManifest)]
             oci == OCISerialized(rawManifest)
         IN  IF ~OCIConvertible(rawManifest)
             THEN {Impl(Err("unsupported manifest type"), h1, <<>>)}
             ELSE {Impl(Nil, WithLength(h1, Len(oci)),
                        WriteHeader(200, WithLength(h1, Len(oci)))
                        \o WriteBody(oci))}

\* After io.Copy returned nil in implBlob: the error it returns.
BlobVerdict(d, s) ==
    IF Sha(Hash(s)) # d THEN [msg |-> "Corrupted blob, expecting", d |-> d]
    ELSE Nil

implBlob(r) ==
    IF ~r.bodyOk THEN {Early(Err("request body"))}
    ELSE IF ~DigestParseOk(r.d) THEN {Early(Err("invalid digest"))}
    ELSE UNION {
        IF b.err # Nil THEN {Impl(b.err, NoHeaders, <<>>)}
        ELSE LET h == [WithLength(NoHeaders, b.size) EXCEPT !.ctype = TRUE]
             IN  {Impl(BlobVerdict(r.d, b.stream), h,
                       WriteHeader(200, h) \o WriteBody(b.stream))}
                 \cup
                 {Impl(Err("read error"), h,
                       WriteHeader(200, h)
                       \o WriteBody(SubSeq(b.stream, 1, k - 1)))
                  : k \in 1..Len(b.stream)}
        : b \in BackendGetBlob(r.d)}

\* w.Header().Set("Content-Length", "0"); w.WriteHeader(code); return
Refuse(code) ==
    {[w |-> WriteHeader(code, WithLength(NoHeaders, 0)), backend |-> FALSE]}

\* if err != nil { w.WriteHeader(500); w.Write([]byte(err.Error())) }
Served(i) ==
    [w |-> IF i.err = Nil THEN i.w
           ELSE i.w \o WriteHeader(500, i.h) \o <<ErrorText(i.err)>>,
     backend |-> i.backend]

\* Faulty variant: ServeHTTP looking at the path before the method.
ServeHTTP_PathFirst(r) ==
    IF r.path \notin {"/manifest", "/blobs/"} THEN Refuse(400)
    ELSE IF r.method # "GET" THEN Refuse(405)
    ELSE IF r.path = "/manifest" THEN {Served(i) : i \in implManifest(r)}
    ELSE {Served(i) : i \in implBlob(r)}

\* ServeHTTP: everything it writes for request r.
ServeHTTP(r) ==
    IF r.method # "GET" THEN Refuse(405)
    ELSE IF r.path \in {"", "noslash"} THEN Refuse(400)
    ELSE IF r.path = "/manifest" THEN {Served(i) : i \in implManifest(r)}
    ELSE IF r.path = "/blobs/" THEN {Served(i) : i \in implBlob(r)}
    ELSE Refuse(400)

\* The requests a peer may send: path "/blobs/" stands for /blobs/<d>.
HttpRequests ==
    [method : {"GET", "POST"},
     path : {"/manifest", "/quit", "/other", "", "noslash"},
     d : {NoStr}, bodyOk : BOOLEAN]
    \cup [method : {"GET", "POST"}, path : {"/blobs/"}, d : DigestStrs,
          bodyOk : BOOLEAN]

InitHTTP ==
    /\ imageref \in {"ok", "bad"}
    /\ rawManifest \in RawManifests
    /\ img = FALSE
    /\ opens = 0
    /\ pipes = [i \in Slots |-> NoPipe]
    /\ activePipes = [k \in Fds |-> 0]
    /\ lock = FALSE
    /\ pc = "h_start"
    /\ req = NoReq
    /\ finishing = 0
    /\ ret = NoRet
    /\ out = <<>>
    /\ sockOk = TRUE
    /\ hreq = NoHReq
    /\ wire = <<>>
    /\ contacted = FALSE

\* run before the loop: ParseImageName, NewImageSource, FromUnparsedImage;
\* an error of any of them is returned (and main exits with status 1).
HStart ==
    /\ pc = "h_start"
    /\ \/ /\ imageref = "ok" /\ img' = TRUE /\ pc' = "h_read"
       \/ /\ img' = FALSE /\ pc' = "error"
    /\ UNCHANGED <<imageref, rawManifest, sockOk>>
    /\ UNCHANGED rpcVars
    /\ UNCHANGED httpVars

\* One turn of the loop: http.ReadRequest, handler.ServeHTTP, buf.Flush.  A
\* flush that fails (the peer is gone: up false) ends run with the error.
HServe ==
    /\ pc = "h_read" /\ sockOk
    /\ \E r \in HttpRequests, up \in BOOLEAN :
          /\ hreq' = r
          /\ sockOk' = up
          /\ \E o \in ServeHTTP(r) :
                /\ contacted' = o.backend
                /\ IF up
                   THEN wire' = o.w /\ pc' = "h_served"
                   ELSE wire' = <<>> /\ pc' = "error"
    /\ UNCHANGED <<imageref, rawManifest, img>>
    /\ UNCHANGED rpcVars

\* for { ... }: back to http.ReadRequest.
HLoopBack ==
    /\ pc = "h_served"
    /\ pc' = "h_read"
    /\ hreq' = NoHReq
    /\ wire' = <<>>
    /\ contacted' = FALSE
    /\ UNCHANGED <<imageref, rawManifest, img, sockOk>>
    /\ UNCHANGED rpcVars

\* http.ReadRequest fails: io.EOF makes run return nil, anything else (a
\* malformed request line, a broken channel) is returned as the error.
HReadEnd ==
    /\ pc = "h_read"
    /\ \/ /\ ~sockOk /\ pc' \in {"done", "error"}
       \/ /\ sockOk /\ pc' = "error"
    /\ UNCHANGED <<imageref, rawManifest, img, sockOk>>
    /\ UNCHANGED rpcVars
    /\ UNCHANGED httpVars

HPeerHangup ==
    /\ pc = "h_read" /\ sockOk
    /\ sockOk' = FALSE
    /\ UNCHANGED <<imageref, rawManifest, img, pc>>
    /\ UNCHANGED rpcVars
    /\ UNCHANGED httpVars

NextHTTP == HStart \/ HServe \/ HLoopBack \/ HReadEnd \/ HPeerHangup

SpecHTTP == InitHTTP /\ [][NextHTTP]_vars

\* The two programs side by side: a run is a run of one of them.
SpecAll == (Init \/ InitHTTP) /\ [][NextRPC \/ NextHTTP]_vars

(***************************************************************************)
(* Properties.                                                             *)
(***************************************************************************)
Last(q) == q[Len(q)]

\* The body bytes of a response, and its first status line.
BodyOf(w) ==
    LET chunks == SelectSeq(w, LAMBDA x : x.k = "body")
    IN  [i \in 1..Len(chunks) |-> chunks[i].b]
FirstStatus(w) == IF w # <<>> /\ w[1].k = "status" THEN w[1].code ELSE 0

\* C1: FinishPipe on a registered transfer returns only when the copy task of
\* that transfer has signalled completion, and what it returns, and the
\* reply sent for it, is exactly the outcome that task recorded (success for
\* no error, otherwise that error), whenever the call and the task interleave.
C1_FinishReturnsRecordedOutcome ==
    [][(pc = "wait" /\ pc' = "replied") =>
          LET p == pipes[activePipes[finishing]]
          IN  /\ p.task = "done"
              /\ ret'.err = p.err
              /\ sockOk => /\ out' # <<>>
                           /\ Last(out') = Reply(Fail(p.err), 0)
                           /\ Last(out').success = (p.err = Nil)]_vars

\* C1 witness: FinishPipe has returned the write error its copy task recorded
\* when the peer closed the pipe early.
C1_Witness ==
    /\ pc = "replied" /\ req.Method = "FinishPipe"
    /\ ret.err = Err("write: broken pipe")
    /\ out # <<>> /\ ~Last(out).success

NotRegistered(k) == k \notin Fds \/ activePipes[k] = 0

\* C2: when FinishPipe returns for a transfer, the transfer has left the
\* registry (and nothing else has); a FinishPipe naming a handle that is not
\* registered, finished before or never registered, fails with "no active
\* pipe", is answered with an error reply and leaves the registry unchanged.
C2_OutcomeDeliveredOnce ==
    [][/\ (pc = "wait" /\ pc' = "replied") =>
             /\ activePipes'[finishing] = 0
             /\ \A k \in Fds :
                   /\ activePipes'[k] # activePipes[finishing]
                   /\ k # finishing => activePipes'[k] = activePipes[k]
       /\ ( /\ pc = "read" /\ pc' # "read"
            /\ req'.Method = "FinishPipe"
            /\ Len(req'.Args) >= 1
            /\ req'.Args[1].t = "num"
            /\ NotRegistered(req'.Args[1].n) ) =>
             /\ pc' = "replied"
             /\ ret'.err = Err("finishpipe: no active pipe")
             /\ activePipes' = activePipes
             /\ pipes' = pipes
             /\ sockOk' => /\ out' # <<>>
                           /\ ~Last(out').success
                           /\ Last(out').att = 0]_vars

\* C2 witness: a transfer has been finished (its write end is closed, the peer
\* still holds the read end) and a further FinishPipe got "no active pipe".
C2_Witness ==
    /\ pc = "replied" /\ req.Method = "FinishPipe"
    /\ ret.err = Err("finishpipe: no active pipe")
    /\ \E i \in Slots :
          /\ pipes[i].st = "live" /\ pipes[i].use = "manifest"
          /\ pipes[i].wfd = 0
          /\ i \notin {activePipes[k] : k \in Fds}

GoodGetBlob(q) ==
    /\ q.Method = "GetBlob" /\ ~q.derr
    /\ Len(q.Args) = 1
    /\ q.Args[1].t = "str"
    /\ \E b \in BlobStore : q.Args[1].s = Sha(Hash(b))

\* C3: a "GetBlob" request with one valid digest of a blob the backend has is
\* routed to the blob operation: it is not answered as an unknown method, and
\* a successful reply carries the size, a pipe id and a descriptor.
C3_GetBlobRouted ==
    (pc = "replied" /\ GoodGetBlob(req) /\ out # <<>>) =>
        /\ Last(out).error # Err("unknown method")
        /\ Last(out).success =>
              /\ Last(out).value.t = "num"
              /\ Last(out).pipeid # 0
              /\ Last(out).att # 0

\* C4: a message that fails JSON decoding is answered with error replies only,
\* none with a descriptor, and registers no transfer.
C4_MalformedEnvelopeOnlyError ==
    req.derr =>
        /\ \A i \in 1..Len(out) : ~out[i].success /\ out[i].att = 0
        /\ ret.pipeid = 0

\* io.Copy of the blob returned nil: the whole stream was read and written.
Judged(p) ==
    /\ p.use = "blob" /\ p.task = "done"
    /\ p.err.msg \notin {"read error", "write: broken pipe"}
DigestMatches(p) == Sha(Hash(p.written)) = p.digest

\* C5: for a blob transfer whose copy consumed the whole stream without an I/O
\* error, the recorded outcome is success exactly when the bytes written to
\* the pipe hash to the requested digest, it is "corrupted blob, expecting
\* <digest>" otherwise, and FinishPipe returns that outcome.
C5_VerifiedIffDigestMatches ==
    [][/\ \A i \in Slots : Judged(pipes'[i]) =>
             /\ pipes'[i].err = Nil <=> DigestMatches(pipes'[i])
             /\ pipes'[i].err # Nil =>
                   pipes'[i].err = ErrCorrupted(pipes'[i].digest)
       /\ ( /\ pc = "wait" /\ pc' = "replied"
            /\ Judged(pipes[activePipes[finishing]]) ) =>
             LET p == pipes[activePipes[finishing]]
             IN  /\ ret'.err = IF DigestMatches(p) THEN Nil
                               ELSE ErrCorrupted(p.digest)
                 /\ Last(out').success = DigestMatches(p)]_vars

\* C5 witness: FinishPipe has returned "corrupted blob" for a stream that was
\* delivered whole.
C5_Witness ==
    /\ pc = "replied" /\ req.Method = "FinishPipe"
    /\ ret.err.msg = "corrupted blob, expecting"
    /\ ~Last(out).success

\* C6: the digest reported for a manifest (the value of the GetManifest reply,
\* the Manifest-Digest header) is the digest of the manifest bytes as the
\* backend returned them, and the body delivered is the OCI serialisation.
C6_DigestOfOriginalManifest ==
    /\ (pc = "replied" /\ req.Method = "GetManifest" /\ ret.err = Nil) =>
          /\ ret.value = Str(Sha(Hash(rawManifest)))
          /\ pipes[activePipes[ret.pipeid]].src = OCISerialized(rawManifest)
    /\ (pc = "h_served" /\ hreq.path = "/manifest" /\ FirstStatus(wire) = 200) =>
          /\ wire[1].h.mdigest = Sha(Hash(rawManifest))
          /\ BodyOf(wire) = OCISerialized(rawManifest)

\* C6 witness: a manifest served with a digest that is not the digest of the
\* body sent.
C6_Witness ==
    /\ pc = "h_served" /\ hreq.path = "/manifest" /\ FirstStatus(wire) = 200
    /\ wire[1].h.mdigest # Sha(Hash(BodyOf(wire)))
    /\ BodyOf(wire) # <<>>

IsQuit(r) == r.method = "POST" /\ r.path = "/quit"

\* C7: POST /quit is answered with status 200 and the loop then ends.
C7_QuitEndsSession ==
    [][(pc = "h_served" /\ IsQuit(hreq)) =>
          /\ FirstStatus(wire) = 200
          /\ pc' = "done"]_vars

UnknownPath(r) == r.path \notin {"/manifest", "/blobs/"}
EmptyAnswer(code) == <<StatusLine(code, WithLength(NoHeaders, 0))>>

C9_FailureIs500 ==
    (pc = "h_served" /\ \E i \in 1..Len(wire) : wire[i].k = "text") =>
        /\ FirstStatus(wire) = 500
        /\ Len(wire) = 2

\* C10: a blob whose streamed bytes do not hash to the requested digest never
\* ends as a 200 response complete at the advertised length after which the
\* loop goes on to the next request.
C10_CorruptBlobNotComplete200 ==
    ( /\ pc = "h_served" /\ hreq.path = "/blobs/"
      /\ FirstStatus(wire) = 200
      /\ Sha(Hash(BodyOf(wire))) # hreq.d ) =>
        ~(wire[1].h.clen.has /\ wire[1].h.clen.v = Len(BodyOf(wire)))

\* C11: the response to GET /blobs/<digest> carries a Content-Length header
\* only when the backend reported a known size: a header that is present
\* never holds the unknown-size sentinel -1.
C11_LengthOnlyWhenKnown ==
    (pc = "h_served" /\ hreq.path = "/blobs/" /\ FirstStatus(wire) = 200) =>
        (wire[1].h.clen.has => wire[1].h.clen.v >= 0)

\* C12: no request ends the session: whatever the method and the argument
\* list of a request other than Shutdown, the process does not die on it; it
\* is answered, or FinishPipe is waiting for its transfer.
C12_NoRequestEndsSession ==
    (req # NoReq /\ req.Method # "Shutdown") => pc \in {"replied", "wait"}

\* The write of the goroutine of p is blocked: its own pipe is full and has
\* a reader.
WriteBlocked(p) == p.src # <<>> /\ ReaderOpen(p) /\ Len(p.buf) >= PipeCap

C14_OpenedAtMostOnce ==
    /\ opens <= 1
    /\ (imageref = "ok" /\ img) => opens >= 1

\* C15: once the copy task of a transfer has signalled completion and the
\* peer has read every byte written, the peer is at end-of-stream: the
\* write side of the pipe is closed, FinishPipe called or not.
C15_TaskClosesWriteSide ==
    \A i \in Slots :
        ( /\ pipes[i].task = "done"
          /\ pipes[i].peer = "open" /\ pipes[i].buf = <<>> ) =>
            pipes[i].wfd = 0

ProcessEnded == pc \in {"done", "error", "panic"}

\* C16: the registry holds one transfer per handle and each registered
\* handle is the descriptor number of the still open write end of its
\* transfer; no two handles name the same transfer; a live entry is never
\* overwritten, and it is removed only by FinishPipe on its handle (or with
\* the process).
C16_RegistryWellFormed ==
    [][/\ \A k \in Fds : activePipes'[k] # 0 =>
             /\ pipes'[activePipes'[k]].st = "live"
             /\ pipes'[activePipes'[k]].wfd = k
             /\ \A l \in Fds \ {k} : activePipes'[l] # activePipes'[k]
       /\ \A k \in Fds :
             (activePipes[k] # 0 /\ activePipes'[k] # activePipes[k]) =>
                /\ activePipes'[k] = 0
                /\ \/ pc = "wait" /\ finishing = k /\ pc' = "replied"
                   \/ ProcessEnded']_vars

\* C16 witness: GetManifest has registered a transfer under handle 2, the
\* number the first transfer of a session gets, while a transfer finished
\* before is still being read by the peer.
C16_Witness ==
    /\ pc = "replied" /\ req.Method = "GetManifest"
    /\ ret.err = Nil /\ ret.pipeid = 2
    /\ activePipes[2] # 0
    /\ \E j \in Slots \ {activePipes[2]} :
          /\ pipes[j].st = "live" /\ pipes[j].use = "manifest"
          /\ pipes[j].wfd = 0 /\ pipes[j].peer = "open"

\* C17: the read end of a pipe is passed with the reply that names the pipe
\* and the local copy is closed when send returns, whether or not the write
\* succeeded: the proxy holds no open read end, a delivered reply with a
\* descriptor is a success reply whose pipe id names that pipe, now held by
\* the peer, and after a failed send nobody holds the read end.
C17_ReadEndClosedAfterSend ==
    /\ \A i \in Slots : pipes[i].rfd = 0
    /\ pc = "replied" =>
          /\ \A n \in 1..Len(out) : out[n].att # 0 =>
                /\ out[n].success
                /\ pipes[out[n].att].peer = "open"
                /\ pipes[out[n].att].wfd = out[n].pipeid
          /\ (ret.fd # 0 /\ sockOk) => Last(out).att = activePipes[ret.pipeid]
          /\ (ret.fd # 0 /\ ~sockOk) =>
                pipes[activePipes[ret.pipeid]].peer = "none"

\* C18: the HTTP loop ends only on a quit request or on end-of-stream, and
\* end-of-stream ends it without an error: while the peer keeps the channel
\* open no step takes the loop from awaiting a request to termination, and
\* the loop never ends with an error.
C18_EndsOnlyOnQuitOrEOF ==
    [][(pc = "h_read" /\ sockOk /\ sockOk') => pc' \notin {"done", "error"}]_vars

CopyErrors == {"read error", "write: broken pipe", "corrupted blob, expecting"}

\* C19: GetManifest and GetBlob reply without waiting for the copy: when the
\* success reply is sent the copy task of the new transfer is running and
\* has not written a byte; the completion of a copy task, failed or not,
\* changes no reply and does not move the session; an error recorded by a
\* copy task is returned by FinishPipe only.
C19_ReplyBeforeCopy ==
    [][/\ ( /\ pc = "read" /\ pc' = "replied"
            /\ req'.Method \in {"GetManifest", "GetBlob"}
            /\ ret'.err = Nil ) =>
             LET p == pipes'[activePipes'[ret'.pipeid]]
             IN  /\ p.task = "running"
                 /\ p.written = <<>> /\ p.buf = <<>>
                 /\ Last(out').success
                 /\ Last(out').att = activePipes'[ret'.pipeid]
       /\ (\E i \in Slots : pipes[i].task = "running" /\ pipes'[i].task = "done")
             => UNCHANGED <<out, ret, pc, req>>
       /\ (pc' = "replied" /\ ret'.err.msg \in CopyErrors) =>
             req'.Method = "FinishPipe"]_vars

\* C19 witness: GetBlob has replied with success while the copy of an
\* earlier transfer is blocked on a pipe nobody reads.
C19_Witness ==
    /\ pc = "replied" /\ req.Method = "GetBlob" /\ ret.err = Nil
    /\ out # <<>> /\ Last(out).success
    /\ \E j \in Slots \ {activePipes[ret.pipeid]} :
          /\ pipes[j].task = "running" /\ WriteBlocked(pipes[j])
          /\ pipes[j].written = pipes[j].buf

\* C20: a malformed image reference is fatal at start: with such a reference
\* no request is ever taken from the socket and no reply is ever sent.
C20_BadReferenceFatalAtStart ==
    imageref = "bad" => (req = NoReq /\ out = <<>> /\ pc # "replied")

\* C21: every message other than Shutdown is answered with exactly one
\* reply before the next message is read: when the loop has finished with a
\* message and the peer is still there, one reply has been sent for it.
C21_OneReplyPerMessage ==
    (pc = "replied" /\ sockOk) => Len(out) = 1

\* C22: the session loop is never stuck inside FinishPipe with the copy
\* task stuck in turn: whenever the loop waits in FinishPipe, holding the
\* handler lock, the proxy can go on without the peer reading first (the
\* copy task can take a step, or FinishPipe can return).
C22_NoFinishPipeDeadlock ==
    pc = "wait" =>
        \/ ENABLED CopyStepAt(activePipes[finishing])
        \/ ENABLED FinishPipeReturn

\* The session loop with a scheduler that lets every goroutine run and a
\* peer that keeps reading the pipes it holds.
SpecRPCFair ==
    /\ SpecRPC
    /\ \A i \in Slots : WF_vars(CopyStepAt(i))
    /\ WF_vars(PeerRead)
    /\ WF_vars(FinishPipeReturn)

\* With such a scheduler and such a peer, a FinishPipe that waits returns.
FinishPipeReturnsWhenDrained == (pc = "wait") ~> (pc # "wait")

\* C23: a GetBlob call that fails leaves the registry as it was and no pipe
\* end open that it opened: the pipes are what they were before the call.
C23_FailedGetBlobLeavesNothing ==
    [][( /\ pc = "read" /\ pc' = "replied"
         /\ req'.Method = "GetBlob" /\ ret'.err # Nil ) =>
           /\ activePipes' = activePipes
           /\ pipes' = pipes]_vars

\* The status lines among what a response put on the channel.
StatusLines(w) == SelectSeq(w, LAMBDA x : x.k = "status")

\* C24: each request puts exactly one status line with its header block on
\* the channel, ahead of everything else written for it.
C24_OneStatusLine ==
    pc = "h_served" =>
        /\ Len(StatusLines(wire)) = 1
        /\ wire[1].k = "status"

====
